---- MODULE Spec2Model ----
(***************************************************************************)
(* Model of padel_kampplan.py: the schedule-construction engine of the     *)
(* padel planner (match-count selection, candidate enumeration, scoring    *)
(* and the random-restart hill climb), driven by main().                   *)
(*                                                                         *)
(* Player names are modelled by the integers 1, 2, 3, ... standing for     *)
(* names in string order ("A" < "B" < ...), so that sorted(), min() and    *)
(* pair_key() compare them exactly as Python compares the strings.         *)
(*                                                                         *)
(* score_schedule returns a float.  The model carries the same value as    *)
(* an exact integer in units of 1/(5*n^3) (n = len(players)): every term   *)
(* of the weighted sum is a multiple of that unit (the variance has        *)
(* denominator n^3, W_CONSEC_REST = 1.2 = 6/5).  Two schedules whose exact  *)
(* scores differ are ordered by the doubles the same way (the exact gap    *)
(* is at least 1/(5*n^3), far above the rounding error); two schedules     *)
(* whose exact scores are equal are a tie in the model, while the doubles  *)
(* can differ in the last bit when the penalty terms differ.               *)
(*                                                                         *)
(* random.Random(RANDOM_SEED) is a deterministic stream.  The stream of    *)
(* that seed is an input of the model: a tape of raw values fixed at Init, *)
(* read cyclically; one draw consumes one entry and scales it to the       *)
(* requested range.                                                        *)
(***************************************************************************)
EXTENDS Integers, Sequences, FiniteSets, TLC

\* ---------------------------------------------------------------- bounds
\* Local-search budget.  The source sets SEARCH_RESTARTS = 180 and
\* LOCAL_STEPS = 3500; the model runs the same loops with a reduced budget.
SEARCH_RESTARTS == 2
LOCAL_STEPS == 3
\* The random tapes: TapeLen raw values, each in 0..RawRange-1; the tapes
\* numbered 0..NumTapes-1 are tried.
TapeLen == 4
RawRange == 3
NumTapes == 81
\* Roster sizes range from MIN_PLAYERS-SizeSlack to MAX_PLAYERS+SizeSlack.
SizeSlack == 1
\* Rosters of at most MaxVariedSize names are also entered in other orders
\* and with a repeated name.
MaxVariedSize == 4
\* build_schedule is run NumRuns times in a row on the same roster.
NumRuns == 2

\* ------------------------------------------------------------- constants
CANDIDATE_SAMPLE == 1200
MIN_PLAYERS == 4
MAX_PLAYERS == 8
\* Weights in fifths are obtained by multiplying by WeightDen, except
\* W_CONSEC_REST, which is 1.2 in the source and is kept as 6 fifths.
WeightDen == 5
W_PLAY_BALANCE == 10
W_TEAMMATE_MISSING == 25
W_TEAMMATE_REPEAT == 6
W_OPP_REPEAT == 2
W_CONSEC_REST_FIFTHS == 6
W_PERFECT_DEVIATION == 40

\* best_score = float("inf") in build_schedule
inf == -1

VARIABLES
    pc,            \* position of main(): "input", "rejected", "restart", "climb", "done"
    players,       \* the roster read by main()
    tape,          \* the raw output stream of the seeded generator
    rng,           \* number of draws consumed from the generator
    M,             \* build_schedule: match count
    perfect_mode,  \* build_schedule: perfect-mode flag
    candidates,    \* build_schedule: candidate matches
    best_schedule, \* build_schedule: best schedule over the restarts
    best_score,    \* build_schedule: its score (inf before the first restart)
    restart,       \* build_schedule: restarts completed
    init,          \* build_schedule: the current restart's initial schedule
    best,          \* improve_schedule: kept schedule
    kept_score,    \* improve_schedule: best_score, the kept schedule's score
    new,           \* improve_schedule: last mutated schedule
    s,             \* improve_schedule: score of the last mutated schedule
    step,          \* improve_schedule: steps done
    run,           \* index of the current run of build_schedule
    results        \* what each finished run returned

vars == <<pc, players, tape, rng, M, perfect_mode, candidates, best_schedule,
          best_score, restart, init, best, kept_score, new, s, step, run, results>>

\* --------------------------------------------------------------- helpers
Range(f) == {f[x] : x \in DOMAIN f}

\* sum(f[x] for x in S)
RECURSIVE SumOver(_, _)
SumOver(f, S) ==
    IF S = {} THEN 0
    ELSE LET x == CHOOSE y \in S : TRUE
         IN  f[x] + SumOver(f, S \ {x})

SumFn(f) == SumOver(f, DOMAIN f)

Abs(x) == IF x < 0 THEN -x ELSE x
Max(x, y) == IF x >= y THEN x ELSE y

RECURSIVE gcd(_, _)
gcd(x, y) == IF y = 0 THEN x ELSE gcd(y, x % y)

\* Python's tuple comparison on pairs
TupleLess(a, b) == a[1] < b[1] \/ (a[1] = b[1] /\ a[2] < b[2])

pair_key(x, y) == IF x < y THEN <<x, y>> ELSE <<y, x>>

normalize_team(t) == IF t[2] < t[1] THEN <<t[2], t[1]>> ELSE t

normalize_match(t1, t2) ==
    LET a == normalize_team(t1)
        b == normalize_team(t2)
    IN  [a |-> IF TupleLess(b, a) THEN b ELSE a,
         b |-> IF TupleLess(a, b) THEN b ELSE a]

Match_players(m) == <<m.a[1], m.a[2], m.b[1], m.b[2]>>

\* ------------------------------------------------------ candidate matches
\* The elements of xs in order, each kept at its first occurrence only
\* (the "seen" set of all_team_partitions_of_four, the "uniq" dict of
\* generate_candidate_matches, whose insertion order list(uniq.values()) keeps).
FirstOccurrences(xs) ==
    LET idx == [k \in 1..Len(xs) |-> k]
        first(k) == \A j \in 1..(k - 1) : xs[j] # xs[k]
        kept == SelectSeq(idx, first)
    IN  [i \in 1..Len(kept) |-> xs[kept[i]]]

Pairings_repeatedSplit(p) ==
    << normalize_match(<<p[1], p[2]>>, <<p[3], p[4]>>),
       normalize_match(<<p[1], p[3]>>, <<p[2], p[4]>>),
       normalize_match(<<p[1], p[3]>>, <<p[2], p[4]>>) >>

Pairings(p) ==
    << normalize_match(<<p[1], p[2]>>, <<p[3], p[4]>>),
       normalize_match(<<p[1], p[3]>>, <<p[2], p[4]>>),
       normalize_match(<<p[1], p[4]>>, <<p[2], p[3]>>) >>

all_team_partitions_of_four(p4) == FirstOccurrences(Pairings(p4))

\* itertools.combinations(range(n), 4): the index 4-tuples i<j<k<l in
\* lexicographic order.
Combinations4(n) ==
    LET digit(x, d) == ((x \div (n ^ (4 - d))) % n) + 1
        all == [x \in 1..(n ^ 4) |-> <<digit(x - 1, 1), digit(x - 1, 2),
                                       digit(x - 1, 3), digit(x - 1, 4)>>]
        inc(t) == t[1] < t[2] /\ t[2] < t[3] /\ t[3] < t[4]
    IN  SelectSeq(all, inc)

\* candidates.extend(all_team_partitions_of_four(p4)) for the combinations
\* number 1..k
RECURSIVE ExtendAll(_, _, _)
ExtendAll(combos, k, ps) ==
    IF k = 0 THEN <<>>
    ELSE LET c == combos[k]
             p4 == <<ps[c[1]], ps[c[2]], ps[c[3]], ps[c[4]]>>
         IN  ExtendAll(combos, k - 1, ps) \o all_team_partitions_of_four(p4)

generate_candidate_matches(ps) ==
    LET combos == Combinations4(Len(ps))
    IN  FirstOccurrences(ExtendAll(combos, Len(combos), ps))

\* ------------------------------------------------------------ match count
perfect_possible_even(n) == (n * (n - 1)) % 2 = 0

perfect_possible(n) == (n * (n - 1)) % 4 = 0

choose_match_count_noRoundUp(n) ==
    IF perfect_possible(n)
    THEN <<(n * (n - 1)) \div 4, TRUE>>
    ELSE LET min_for_teammates == (((n * (n - 1)) \div 2) + 1) \div 2
             base == n \div gcd(n, 4)
         IN  <<Max(base, min_for_teammates), FALSE>>

choose_match_count(n) ==
    IF perfect_possible(n)
    THEN <<(n * (n - 1)) \div 4, TRUE>>
    ELSE LET min_for_teammates == (((n * (n - 1)) \div 2) + 1) \div 2
             base == n \div gcd(n, 4)
             M0 == Max(base, min_for_teammates)
         IN  <<IF M0 % base # 0 THEN M0 + (base - (M0 % base)) ELSE M0, FALSE>>

\* ---------------------------------------------------------------- scoring
\* in_match = set(m.players())
in_match(m) == Range(Match_players(m))

\* plays[p] after the loop over the schedule: one increment per match and
\* per roster position holding a name that is in the match
plays_of(schedule, ps) ==
    [p \in Range(ps) |->
        Cardinality({kr \in (1..Len(schedule)) \X (1..Len(ps)) :
                        ps[kr[2]] = p /\ p \in in_match(schedule[kr[1]])})]

\* rest_streak[players[r]] right after the loop body for match k and roster
\* position r, when players[r] is not in match k: one increment per roster
\* position holding that name, for every match since the name last played
rest_streak_at(schedule, ps, k, r) ==
    LET p == ps[r]
        played == {j \in 1..k : p \in in_match(schedule[j])}
        last == IF played = {} THEN 0 ELSE CHOOSE j \in played : \A i \in played : i <= j
        copies == Cardinality({q \in 1..Len(ps) : ps[q] = p})
        upto == Cardinality({q \in 1..r : ps[q] = p})
    IN  copies * (k - last - 1) + upto

\* rest_streak_pen after the loop: (rest_streak[p] - 1) is added whenever a
\* resting name's streak is at least 2
rest_streak_pen(schedule, ps) ==
    SumFn([k \in 1..Len(schedule) |->
        SumFn([r \in {q \in 1..Len(ps) : ps[q] \notin in_match(schedule[k])} |->
            IF rest_streak_at(schedule, ps, k, r) >= 2
            THEN rest_streak_at(schedule, ps, k, r) - 1 ELSE 0])])

\* teammate_counts.get(pk, 0) after the loop over the schedule
teammate_count(schedule, pk) ==
    Cardinality({k \in 1..Len(schedule) : pair_key(schedule[k].a[1], schedule[k].a[2]) = pk})
    + Cardinality({k \in 1..Len(schedule) : pair_key(schedule[k].b[1], schedule[k].b[2]) = pk})

\* opp_counts.get(pk, 0) after the loop over the schedule
opp_count(schedule, pk) ==
    Cardinality({t \in (1..Len(schedule)) \X (1..2) \X (1..2) :
                    pair_key(schedule[t[1]].a[t[2]], schedule[t[1]].b[t[3]]) = pk})

\* all_pairs, as the index pairs i < j it is built from
all_pairs(n) == {ij \in (1..n) \X (1..n) : ij[1] < ij[2]}

missing_pairs_inverted(schedule, ps) ==
    Cardinality({ij \in all_pairs(Len(ps)) :
                    teammate_count(schedule, pair_key(ps[ij[1]], ps[ij[2]])) # 0})

missing_pairs(schedule, ps) ==
    Cardinality({ij \in all_pairs(Len(ps)) :
                    teammate_count(schedule, pair_key(ps[ij[1]], ps[ij[2]])) = 0})

teammate_repeats(schedule, ps) ==
    SumFn([ij \in all_pairs(Len(ps)) |->
              Max(0, teammate_count(schedule, pair_key(ps[ij[1]], ps[ij[2]])) - 1)])

deviation_from_one(schedule, ps) ==
    SumFn([ij \in all_pairs(Len(ps)) |->
              Abs(teammate_count(schedule, pair_key(ps[ij[1]], ps[ij[2]])) - 1)])

opp_repeats_allMeetings(schedule, ps) ==
    SumFn([pk \in {q \in Range(ps) \X Range(ps) : q[1] <= q[2]} |->
              opp_count(schedule, pk)])

opp_repeats(schedule, ps) ==
    SumFn([pk \in {q \in Range(ps) \X Range(ps) : q[1] <= q[2]} |->
              Max(0, opp_count(schedule, pk) - 1)])

\* n^3 * var_play: sum over the keys of plays of (n*v - sum(play_vals))^2
var_play_n3(schedule, ps) ==
    LET plays == plays_of(schedule, ps)
        tot == SumFn(plays)
    IN  SumFn([p \in DOMAIN plays |-> (Len(ps) * plays[p] - tot) * (Len(ps) * plays[p] - tot)])

\* The unit of the modelled score: 1.0 in the source is ScoreUnit(players).
ScoreUnit(ps) == WeightDen * Len(ps) * Len(ps) * Len(ps)

score_schedule(schedule, ps, pm) ==
    LET missing == missing_pairs(schedule, ps)
        total == W_PLAY_BALANCE * WeightDen * var_play_n3(schedule, ps)
                 + ScoreUnit(ps) * W_TEAMMATE_MISSING * (missing * missing)
                 + ScoreUnit(ps) * W_TEAMMATE_REPEAT * teammate_repeats(schedule, ps)
                 + ScoreUnit(ps) * W_OPP_REPEAT * opp_repeats(schedule, ps)
                 + (ScoreUnit(ps) \div WeightDen) * W_CONSEC_REST_FIFTHS * rest_streak_pen(schedule, ps)
    IN  IF pm THEN total + ScoreUnit(ps) * W_PERFECT_DEVIATION * deviation_from_one(schedule, ps)
        ELSE total

\* s < best_score on floats, best_score possibly float("inf")
ScoreLess_orEqual(x, y) == x # inf /\ (y = inf \/ x <= y)

ScoreLess(x, y) == x # inf /\ (y = inf \/ x < y)

\* ------------------------------------------------------ the seeded stream
\* rng = random.Random(RANDOM_SEED): a fresh generator, no draw consumed yet
NewRng_shared == rng

NewRng == 0

\* the raw value of draw number pos (0-based) of the seeded generator
Raw(pos) == tape[(pos % TapeLen) + 1]

\* tape number t: its digits in base RawRange, lowest first
TapeOf(t) == [k \in 1..TapeLen |-> (t \div (RawRange ^ (k - 1))) % RawRange]

Tapes == {TapeOf(t) : t \in 0..(NumTapes - 1)}

\* rng.randrange(k) at stream position pos: a value in 0..k-1
randrange(k, pos) == (Raw(pos) * k) \div RawRange

\* rng.choice(seq) at stream position pos
choice(seq, pos) == seq[randrange(Len(seq), pos) + 1]

\* rng.sample(pool, k) starting at stream position pos
RECURSIVE sample(_, _, _)
sample(pool, k, pos) ==
    IF k = 0 THEN <<>>
    ELSE LET j == randrange(Len(pool), pos) + 1
         IN  <<pool[j]>> \o sample(SubSeq(pool, 1, j - 1) \o SubSeq(pool, j + 1, Len(pool)),
                                   k - 1, pos + 1)

\* [rng.choice(candidates) for _ in range(M)] starting at stream position pos
random_schedule(cands, m, pos) == [k \in 1..m |-> choice(cands, pos + k - 1)]

\* new = best[:]; i = rng.randrange(len(new)); new[i] = rng.choice(candidates)
mutate_append(sched, cands, pos) == Append(sched, choice(cands, pos + 1))

mutate(sched, cands, pos) ==
    [sched EXCEPT ![randrange(Len(sched), pos) + 1] = choice(cands, pos + 1)]

\* --------------------------------------------------------------- rosters
Ascending(n) == [k \in 1..n |-> k]
Descending(n) == [k \in 1..n |-> n + 1 - k]
Rotated(n) == [k \in 1..n |-> (k % n) + 1]
NameTwice(n) == [k \in 1..n |-> IF k = 2 THEN 1 ELSE k]

RosterSizes == (MIN_PLAYERS - SizeSlack)..(MAX_PLAYERS + SizeSlack)

\* Every size comes in entry order A, B, C, ...; the sizes up to MaxVariedSize
\* also come in other entry orders and with one name entered twice.
Rosters ==
    {Ascending(n) : n \in RosterSizes}
    \cup UNION {{Descending(n), Rotated(n), NameTwice(n)} :
                    n \in {k \in RosterSizes : k <= MaxVariedSize}}

Distinct(ps) == \A i, j \in 1..Len(ps) : i # j => ps[i] # ps[j]

\* --------------------------------------------------------- state machine
Init ==
    /\ pc = "input"
    /\ players \in Rosters
    /\ tape \in Tapes
    /\ rng = 0
    /\ M = 0
    /\ perfect_mode = FALSE
    /\ candidates = <<>>
    /\ best_schedule = <<>>
    /\ best_score = inf
    /\ restart = 0
    /\ init = <<>>
    /\ best = <<>>
    /\ kept_score = 0
    /\ new = <<>>
    /\ s = 0
    /\ step = 0
    /\ run = 1
    /\ results = <<>>

\* main: a roster of fewer than 4 or more than 8 names ends the program
Reject ==
    /\ pc = "input"
    /\ (Len(players) < MIN_PLAYERS \/ Len(players) > MAX_PLAYERS)
    /\ pc' = "rejected"
    /\ UNCHANGED <<players, tape, rng, M, perfect_mode, candidates, best_schedule,
                   best_score, restart, init, best, kept_score, new, s, step, run, results>>

\* main calls build_schedule, which runs up to its restart loop
Start ==
    /\ pc = "input"
    /\ ~(Len(players) < MIN_PLAYERS \/ Len(players) > MAX_PLAYERS)
    /\ LET mc == choose_match_count(Len(players))
           all == generate_candidate_matches(players)
       IN  /\ M' = mc[1]
           /\ perfect_mode' = mc[2]
           /\ IF Len(all) > CANDIDATE_SAMPLE
              THEN /\ candidates' = sample(all, CANDIDATE_SAMPLE, NewRng)
                   /\ rng' = NewRng + CANDIDATE_SAMPLE
              ELSE /\ candidates' = all
                   /\ rng' = NewRng
    /\ best_schedule' = <<>>
    /\ best_score' = inf
    /\ restart' = 0
    /\ pc' = "restart"
    /\ UNCHANGED <<players, tape, init, best, kept_score, new, s, step, run, results>>

\* one restart begins: the initial schedule is drawn and improve_schedule
\* is entered
BeginRestart ==
    /\ pc = "restart"
    /\ restart < SEARCH_RESTARTS
    /\ init' = random_schedule(candidates, M, rng)
    /\ rng' = rng + M
    /\ best' = init'
    /\ kept_score' = score_schedule(init', players, perfect_mode)
    /\ step' = 0
    /\ pc' = "climb"
    /\ UNCHANGED <<players, tape, M, perfect_mode, candidates, best_schedule,
                   best_score, restart, new, s, run, results>>

\* one iteration of improve_schedule's loop
Step ==
    /\ pc = "climb"
    /\ step < LOCAL_STEPS
    /\ new' = mutate(best, candidates, rng)
    /\ rng' = rng + 2
    /\ s' = score_schedule(new', players, perfect_mode)
    /\ IF ScoreLess(s', kept_score)
       THEN best' = new' /\ kept_score' = s'
       ELSE best' = best /\ kept_score' = kept_score
    /\ step' = step + 1
    /\ UNCHANGED <<pc, players, tape, M, perfect_mode, candidates, best_schedule,
                   best_score, restart, init, run, results>>

\* improve_schedule returns; build_schedule keeps the result if it is better
EndRestart ==
    /\ pc = "climb"
    /\ step = LOCAL_STEPS
    /\ LET improved == best
           sc == score_schedule(improved, players, perfect_mode)
       IN  IF ScoreLess(sc, best_score)
           THEN best_schedule' = improved /\ best_score' = sc
           ELSE best_schedule' = best_schedule /\ best_score' = best_score
    /\ restart' = restart + 1
    /\ pc' = "restart"
    /\ UNCHANGED <<players, tape, rng, M, perfect_mode, candidates, init, best,
                   kept_score, new, s, step, run, results>>

\* build_schedule returns (best_schedule, M, perfect_mode) to main
Return ==
    /\ pc = "restart"
    /\ restart = SEARCH_RESTARTS
    /\ results' = Append(results, [schedule |-> best_schedule, M |-> M,
                                   perfect_mode |-> perfect_mode, draws |-> rng])
    /\ pc' = "done"
    /\ UNCHANGED <<players, tape, rng, M, perfect_mode, candidates, best_schedule,
                   best_score, restart, init, best, kept_score, new, s, step, run>>

\* the program is run again on the same roster
RunAgain ==
    /\ pc = "done"
    /\ run < NumRuns
    /\ run' = run + 1
    /\ pc' = "input"
    /\ UNCHANGED <<players, tape, rng, M, perfect_mode, candidates, best_schedule,
                   best_score, restart, init, best, kept_score, new, s, step, results>>

Next == Reject \/ Start \/ BeginRestart \/ Step \/ EndRestart \/ Return \/ RunAgain

Spec == Init /\ [][Next]_vars

\* ================================================================ claims
\* choose_match_count has been called in the current run
Selected == pc \in {"restart", "climb", "done"}

\* generate_candidate_matches has just returned
Generated == pc = "restart" /\ restart = 0

Binomial4(n) == (n * (n - 1) * (n - 2) * (n - 3)) \div 24

\* four pairwise distinct participants, split into two disjoint teams of two
ValidMatch(m) ==
    /\ Cardinality(in_match(m)) = 4
    /\ m.a[1] # m.a[2]
    /\ m.b[1] # m.b[2]
    /\ {m.a[1], m.a[2]} \cap {m.b[1], m.b[2]} = {}

\* C1: for every roster size N in 4..8 the match count M chosen by
\* choose_match_count satisfies (4*M) % N = 0.
C1_EqualPlayCounts ==
    Selected => /\ Len(players) \in MIN_PLAYERS..MAX_PLAYERS
                /\ (4 * M) % Len(players) = 0

C1_Witness == Selected /\ Len(players) = 7 /\ M = 14 /\ ~perfect_mode

\* C2: within 4..8 perfect_possible is true exactly for 4, 5 and 8 and false
\* for 6 and 7; where it is true choose_match_count returns (N*(N-1)/4, True).
C2_PerfectSizes ==
    Selected =>
        LET n == Len(players)
        IN  /\ perfect_possible(n) <=> n \in {4, 5, 8}
            /\ n \in {6, 7} => ~perfect_possible(n)
            /\ perfect_possible(n) => /\ 4 * M = n * (n - 1)
                                      /\ perfect_mode = TRUE

C2_Witness == Selected /\ Len(players) = 8 /\ M = 14 /\ perfect_mode

\* C3: for a roster of N pairwise distinct participants the candidate list
\* has exactly 3*C(N,4) pairwise distinct matches, each with four pairwise
\* distinct participants in two disjoint teams of two.
C3_CandidateCount ==
    (Generated /\ Distinct(players)) =>
        /\ Len(candidates) = 3 * Binomial4(Len(players))
        /\ Cardinality(Range(candidates)) = Len(candidates)
        /\ \A k \in 1..Len(candidates) : ValidMatch(candidates[k])

C3_Witness ==
    Generated /\ players = Descending(4) /\ Len(candidates) = 3

\* the schedule {AB v CD}, {AC v BD}, {AD v BC}
PerfectFour ==
    << [a |-> <<1, 2>>, b |-> <<3, 4>>],
       [a |-> <<1, 3>>, b |-> <<2, 4>>],
       [a |-> <<1, 4>>, b |-> <<2, 3>>] >>

HoldsPerfectFour ==
    pc = "climb" /\ players = <<1, 2, 3, 4>> /\ perfect_mode /\ best = PerfectFour

\* C4 (as stated): for roster [A,B,C,D] in perfect mode the schedule
\* {AB v CD}, {AC v BD}, {AD v BC} has score 0.
C4_PerfectFourScoresZero == HoldsPerfectFour => kept_score = 0

\* C4 (amended): that schedule has score 12.0 = W_OPP_REPEAT * 6, every
\* opponent pair meeting twice; all other penalty terms are 0.
C4_PerfectFourScoresTwelve ==
    HoldsPerfectFour =>
        /\ kept_score = 12 * ScoreUnit(players)
        /\ opp_repeats(best, players) = 6
        /\ missing_pairs(best, players) = 0
        /\ teammate_repeats(best, players) = 0
        /\ deviation_from_one(best, players) = 0
        /\ var_play_n3(best, players) = 0
        /\ rest_streak_pen(best, players) = 0

C4_Witness == HoldsPerfectFour /\ step = LOCAL_STEPS

\* C5: no Match with fewer than four pairwise distinct participants is ever
\* produced: every candidate match and every match of a held schedule has
\* two disjoint teams of distinct participants.
C5_NoInvalidMatch ==
    /\ \A k \in 1..Len(candidates) : ValidMatch(candidates[k])
    /\ \A k \in 1..Len(best) : ValidMatch(best[k])
    /\ \A k \in 1..Len(best_schedule) : ValidMatch(best_schedule[k])

\* C6: a roster whose size is outside 4..8 or that has fewer than 4 distinct
\* participants is rejected before any search runs and no schedule is
\* produced for it.
InvalidRoster ==
    \/ Len(players) < MIN_PLAYERS
    \/ Len(players) > MAX_PLAYERS
    \/ Cardinality(Range(players)) < 4

C6_InvalidRosterRejected ==
    InvalidRoster => /\ pc \in {"input", "rejected"}
                     /\ candidates = <<>>
                     /\ best_schedule = <<>>
                     /\ results = <<>>

\* C7: for a fixed roster and either value of perfect_mode, a schedule in
\* which every teammate pair appears exactly once and all play counts are
\* equal scores strictly lower than a schedule of the same length with a
\* teammate pair that never appears, when opponent repeats and rest-streak
\* penalty are equal.
EveryPairOnce(x) ==
    /\ \A ij \in all_pairs(Len(players)) :
          teammate_count(x, pair_key(players[ij[1]], players[ij[2]])) = 1
    /\ LET plays == plays_of(x, players)
       IN  \A p, q \in Range(players) : plays[p] = plays[q]

SomePairMissing(y) ==
    \E ij \in all_pairs(Len(players)) :
        teammate_count(y, pair_key(players[ij[1]], players[ij[2]])) = 0

\* the schedules the search holds
Held == {best, init, new, best_schedule} \ {<<>>}

Comparable(x, y) ==
    /\ Len(x) = Len(y)
    /\ EveryPairOnce(x)
    /\ SomePairMissing(y)
    /\ opp_repeats(x, players) = opp_repeats(y, players)
    /\ rest_streak_pen(x, players) = rest_streak_pen(y, players)

\* The pairs compared: the schedules the search holds and, for the smallest
\* roster, every schedule of M candidates (once, in the first run).
Compared ==
    IF Generated /\ run = 1 /\ players = Ascending(MIN_PLAYERS)
    THEN [1..M -> Range(candidates)]
    ELSE Held

C7_ScoreMonotone ==
    (Selected /\ Distinct(players) /\ 4 * M = Len(players) * (Len(players) - 1)) =>
        \A x \in Compared :
            EveryPairOnce(x) =>
                \A y \in Compared :
                    Comparable(x, y) =>
                        \A pm \in BOOLEAN :
                            score_schedule(x, players, pm) < score_schedule(y, players, pm)

C7_Witness ==
    /\ Selected /\ Distinct(players) /\ 4 * M = Len(players) * (Len(players) - 1)
    /\ \E x, y \in Held : Comparable(x, y)

\* C8: two runs of build_schedule on the same roster with the same seed
\* consume the same random draws and return the same schedule, M and
\* perfect_mode.
C8_Deterministic ==
    \A i, j \in 1..Len(results) : results[i] = results[j]

C8_Witness ==
    /\ Len(results) = 2
    /\ Len(results[2].schedule) = results[2].M
    /\ results[2].draws > 0

\* C9: every step of improve_schedule replaces exactly one slot of a copy of
\* the kept schedule by a candidate and keeps the mutation iff its score is
\* strictly lower than the kept score; the kept score never increases, the
\* loop ends only when the step budget is used up, and the returned schedule
\* scores no more than the starting schedule.
StepTaken == pc = "climb" /\ pc' = "climb" /\ step' = step + 1

C9_StepRule ==
    /\ StepTaken =>
          /\ \E i \in 1..Len(best) : \E c \in Range(candidates) :
                new' = [best EXCEPT ![i] = c]
          /\ s' = score_schedule(new', players, perfect_mode)
          /\ (s' < kept_score) => (best' = new' /\ kept_score' = s')
          /\ ~(s' < kept_score) => (best' = best /\ kept_score' = kept_score)
          /\ kept_score' <= kept_score
    /\ (pc = "climb" /\ pc' # "climb") =>
          /\ step = LOCAL_STEPS
          /\ best' = best
          /\ kept_score = score_schedule(best, players, perfect_mode)
          /\ kept_score <= score_schedule(init, players, perfect_mode)

C9_GreedyHillClimb == [][C9_StepRule]_vars

C9_Witness ==
    /\ pc = "climb" /\ step = LOCAL_STEPS
    /\ best = new /\ best # init
    /\ kept_score < score_schedule(init, players, perfect_mode)

\* C10: for a roster of 4 to 8 distinct participants every schedule held
\* during the search and every schedule returned has exactly
\* M = choose_match_count(N) matches, each an element of the candidate set
\* with four pairwise distinct roster participants.
ValidSchedule(x) ==
    /\ Len(x) = choose_match_count(Len(players))[1]
    /\ Len(x) = M
    /\ \A k \in 1..Len(x) : /\ x[k] \in Range(candidates)
                            /\ ValidMatch(x[k])
                            /\ in_match(x[k]) \subseteq Range(players)

C10_SchedulesWellFormed ==
    (Distinct(players) /\ Len(players) \in MIN_PLAYERS..MAX_PLAYERS) =>
        /\ pc = "climb" => ValidSchedule(init) /\ ValidSchedule(best)
        /\ (pc = "climb" /\ step >= 1) => ValidSchedule(new)
        /\ (pc \in {"restart", "climb"} /\ restart >= 1) => ValidSchedule(best_schedule)
        /\ \A i \in 1..Len(results) : ValidSchedule(results[i].schedule)

C10_Witness ==
    /\ Distinct(players) /\ Len(players) = 8
    /\ Len(results) >= 1 /\ Len(results[1].schedule) = 14

====
